---- MODULE Spec2Model ----
(***************************************************************************)
(* Keyvibes (src/app.py): the SoundEngine (load_pack, trigger), the        *)
(* AudioMixer (set_volume, play, _drain_events, _callback) and the three   *)
(* threads that use them: the pynput listener thread and the Qt UI thread  *)
(* (producers / control) and the audio device's callback thread (render).  *)
(*                                                                         *)
(* Numbers are fixed point: gains and the master volume are hundredths     *)
(* (0.85 is 85, 1.0 is 100), sample values are halves (1.0 is 2), so a     *)
(* value of the mix buffer is in units of 1 / (2 * 100 * 100).             *)
(***************************************************************************)
EXTENDS Integers, Sequences, FiniteSets, TLC

\* ------------------------------------------------------------------ bounds

\* Largest block size the audio device asks for in one callback.
MaxFrames == 2
\* Number of play requests issued in one behaviour (queue.Queue is unbounded).
MaxPlays == 2

\* --------------------------------------------------------------- constants

SAMPLE_RATE == 44100
CHANNELS == 2

\* 1.0 of a sample value, of a gain / volume, and of a mixed value.
AmpOne == 1 + 1
Pct == 10 * 10
MixOne == AmpOne * Pct * Pct

Min(a, b) == IF a <= b THEN a ELSE b
Max(a, b) == IF a >= b THEN a ELSE b

\* np.clip(x, lo, hi)
np_clip(x, lo, hi) == Min(Max(x, lo), hi)

\* The categories, in the order list_category_files builds its dict.
cats == <<"normal", "space", "backspace", "enter", "modifier", "arrow", "function">>
Categories == {cats[i] : i \in 1..Len(cats)}

\* The threads that call into the engine: the keyboard listener (on_press)
\* and the UI thread (buttons, combo box, slider, check box).
Threads == {"listener", "ui"}

\* -------------------------------------------------------- key_to_category
\* A key as pynput hands it to on_press: a member of the enum keyboard.Key
\* (cls "Key", with its name), a keyboard.KeyCode of a character, or None.
\* Names and strings are sequences of characters.
Key(nm) == [cls |-> "Key", name |-> nm]
KeyCode(ch) == [cls |-> "KeyCode", name |-> <<ch>>]
NoKey == [cls |-> "NoneType", name |-> << >>]

Key_alt == Key(<<"a", "l", "t">>)
Key_alt_l == Key(<<"a", "l", "t", "_", "l">>)
Key_alt_r == Key(<<"a", "l", "t", "_", "r">>)
Key_alt_gr == Key(<<"a", "l", "t", "_", "g", "r">>)
Key_backspace == Key(<<"b", "a", "c", "k", "s", "p", "a", "c", "e">>)
Key_caps_lock == Key(<<"c", "a", "p", "s", "_", "l", "o", "c", "k">>)
Key_cmd == Key(<<"c", "m", "d">>)
Key_cmd_l == Key(<<"c", "m", "d", "_", "l">>)
Key_cmd_r == Key(<<"c", "m", "d", "_", "r">>)
Key_ctrl == Key(<<"c", "t", "r", "l">>)
Key_ctrl_l == Key(<<"c", "t", "r", "l", "_", "l">>)
Key_ctrl_r == Key(<<"c", "t", "r", "l", "_", "r">>)
Key_delete == Key(<<"d", "e", "l", "e", "t", "e">>)
Key_down == Key(<<"d", "o", "w", "n">>)
Key_end == Key(<<"e", "n", "d">>)
Key_enter == Key(<<"e", "n", "t", "e", "r">>)
Key_esc == Key(<<"e", "s", "c">>)
Key_f1 == Key(<<"f", "1">>)
Key_f5 == Key(<<"f", "5">>)
Key_f12 == Key(<<"f", "1", "2">>)
Key_f20 == Key(<<"f", "2", "0">>)
Key_home == Key(<<"h", "o", "m", "e">>)
Key_left == Key(<<"l", "e", "f", "t">>)
Key_page_down == Key(<<"p", "a", "g", "e", "_", "d", "o", "w", "n">>)
Key_page_up == Key(<<"p", "a", "g", "e", "_", "u", "p">>)
Key_right == Key(<<"r", "i", "g", "h", "t">>)
Key_shift == Key(<<"s", "h", "i", "f", "t">>)
Key_shift_l == Key(<<"s", "h", "i", "f", "t", "_", "l">>)
Key_shift_r == Key(<<"s", "h", "i", "f", "t", "_", "r">>)
Key_space == Key(<<"s", "p", "a", "c", "e">>)
Key_tab == Key(<<"t", "a", "b">>)
Key_up == Key(<<"u", "p">>)
Key_media_play_pause == Key(<<"m", "e", "d", "i", "a", "_", "p", "l", "a", "y", "_", "p", "a", "u", "s", "e">>)
Key_media_volume_mute == Key(<<"m", "e", "d", "i", "a", "_", "v", "o", "l", "u", "m", "e", "_", "m", "u", "t", "e">>)
Key_media_volume_down == Key(<<"m", "e", "d", "i", "a", "_", "v", "o", "l", "u", "m", "e", "_", "d", "o", "w", "n">>)
Key_media_volume_up == Key(<<"m", "e", "d", "i", "a", "_", "v", "o", "l", "u", "m", "e", "_", "u", "p">>)
Key_media_previous == Key(<<"m", "e", "d", "i", "a", "_", "p", "r", "e", "v", "i", "o", "u", "s">>)
Key_media_next == Key(<<"m", "e", "d", "i", "a", "_", "n", "e", "x", "t">>)
Key_insert == Key(<<"i", "n", "s", "e", "r", "t">>)
Key_menu == Key(<<"m", "e", "n", "u">>)
Key_num_lock == Key(<<"n", "u", "m", "_", "l", "o", "c", "k">>)
Key_pause == Key(<<"p", "a", "u", "s", "e">>)
Key_print_screen == Key(<<"p", "r", "i", "n", "t", "_", "s", "c", "r", "e", "e", "n">>)
Key_scroll_lock == Key(<<"s", "c", "r", "o", "l", "l", "_", "l", "o", "c", "k">>)

\* The keys pressed: the members of keyboard.Key (of F1..F20 the first, the
\* last and two between), some characters, and None (an unknown key).
Keys ==
    {Key_alt, Key_alt_l, Key_alt_r, Key_alt_gr, Key_backspace, Key_caps_lock,
     Key_cmd, Key_cmd_l, Key_cmd_r, Key_ctrl, Key_ctrl_l, Key_ctrl_r,
     Key_delete, Key_down, Key_end, Key_enter, Key_esc, Key_f1,
     Key_f5, Key_f12, Key_f20, Key_home, Key_left, Key_page_down,
     Key_page_up, Key_right, Key_shift, Key_shift_l, Key_shift_r, Key_space,
     Key_tab, Key_up, Key_media_play_pause, Key_media_volume_mute, Key_media_volume_down, Key_media_volume_up,
     Key_media_previous, Key_media_next, Key_insert, Key_menu, Key_num_lock, Key_pause,
     Key_print_screen, Key_scroll_lock,
     KeyCode("a"), KeyCode("f"), KeyCode("5"), KeyCode(" "), NoKey}

\* str(key): "Key.<name>" for a member of the enum, repr of the character
\* for a KeyCode.
str(key) ==
    IF key.cls = "Key" THEN <<"K", "e", "y", ".">> \o key.name
    ELSE IF key.cls = "KeyCode" THEN <<"'">> \o key.name \o <<"'">>
    ELSE <<"N", "o", "n", "e">>

\* s.startswith(prefix)
startswith(s, prefix) ==
    Len(s) >= Len(prefix) /\ SubSeq(s, 1, Len(prefix)) = prefix

\* isinstance(key, keyboard.Key)
isinstance_Key(key) == key.cls = "Key"

\* The tuple of lines 67-73.
modifier_keys ==
    {Key_shift, Key_shift_l, Key_shift_r, Key_ctrl, Key_ctrl_l, Key_ctrl_r,
     Key_alt, Key_alt_l, Key_alt_r, Key_cmd, Key_cmd_l, Key_cmd_r,
     Key_tab, Key_caps_lock, Key_esc}

\* The tuple of lines 76-80.
arrow_keys ==
    {Key_up, Key_down, Key_left, Key_right, Key_home, Key_end,
     Key_page_down, Key_page_up, Key_insert, Key_delete}

\* Lines 59-86 with the pattern "Key." for "Key.f".
key_to_category_any_named(key) ==
    IF key = Key_space THEN "space"
    ELSE IF key = Key_enter THEN "enter"
    ELSE IF key = Key_backspace THEN "backspace"
    ELSE IF key \in modifier_keys THEN "modifier"
    ELSE IF key \in arrow_keys THEN "arrow"
    ELSE IF isinstance_Key(key) /\ startswith(str(key), <<"K", "e", "y", ".">>)
         THEN "function"
    ELSE "normal"

\* key_to_category(key), lines 59-86.
key_to_category(key) ==
    IF key = Key_space THEN "space"
    ELSE IF key = Key_enter THEN "enter"
    ELSE IF key = Key_backspace THEN "backspace"
    ELSE IF key \in modifier_keys THEN "modifier"
    ELSE IF key \in arrow_keys THEN "arrow"
    ELSE IF isinstance_Key(key) /\ startswith(str(key), <<"K", "e", "y", ".", "f">>)
         THEN "function"
    ELSE "normal"

\* ------------------------------------------------------- the sounds folder
\* A WAV file as soundfile reads it: ok (decodable), its sample rate, its
\* channel count and its frames (always_2d: each frame a tuple of ch values).
Wav(ok, sr, ch, fr) == [ok |-> ok, sr |-> sr, ch |-> ch, fr |-> fr]

wavLong    == Wav(TRUE, SAMPLE_RATE, 2, << <<2, 2>>, <<-2, 1>>, <<-1, -2>> >>)
wavEmpty   == Wav(TRUE, SAMPLE_RATE, 2, << >>)
wavTriple  == Wav(TRUE, SAMPLE_RATE, 3, << <<1, 1, 1>> >>)
wavMono    == Wav(TRUE, SAMPLE_RATE, 1, << <<-2>>, <<1>> >>)
wav48k     == Wav(TRUE, 48000, 2, << <<1, 1>> >>)
wavCorrupt == Wav(FALSE, 0, 0, << >>)

NoFiles == [c \in Categories |-> << >>]

\* list_category_files(pack): the sorted files of each category; a pack
\* with no file of a category's prefix lists none for it.
list_category_files(p) ==
    CASE p = "alpha"   -> [NoFiles EXCEPT !["normal"] = <<wavEmpty, wavLong>>,
                                          !["space"] = <<wavTriple>>]
      [] p = "broken"  -> [NoFiles EXCEPT !["normal"] = <<wavMono>>,
                                          !["space"] = <<wavTriple, wavCorrupt>>]
      [] p = "rate48k" -> [NoFiles EXCEPT !["normal"] = <<wav48k>>]
      [] OTHER         -> NoFiles

\* The packs the caller asks for: "beta" holds no sound file.
Packs == {"alpha", "beta", "broken", "rate48k"}

\* --------------------------------------------------------------- load_wav
\* np.repeat(data, 2, axis=1) of a one-channel array.
np_repeat2(fr) == [i \in 1..Len(fr) |-> <<fr[i][1], fr[i][1]>>]

\* load_wav(path): the decoded array [ch, fr], or the exception it raises.
load_wav(w) ==
    IF ~w.ok THEN [exc |-> "DecodeError"]
    ELSE LET data == IF w.ch = 1 THEN [ch |-> 2, fr |-> np_repeat2(w.fr)]
                                 ELSE [ch |-> w.ch, fr |-> w.fr]
         IN  IF w.sr # SAMPLE_RATE THEN [exc |-> "ValueError"]
             ELSE [exc |-> "none", data |-> data]

\* ------------------------------------------------------------------ state
VARIABLES
    \* SoundEngine
    pack,          \* self.pack: "None" or the active pack's name
    sounds,        \* self.sounds: dict category -> list of decoded arrays
    enabled,       \* self.enabled
    \* AudioMixer
    volume,        \* self.volume, in hundredths
    lock,          \* self._lock: "free" or the thread holding it
    active,        \* self._active: list of ActiveSound
    event_q,       \* self._event_q: FIFO of (data, gain)
    stream,        \* self._stream: "active" (started), "stopped" or "closed"
    \* the calling threads: position and locals of the call in progress
    tpc,           \* per thread: "idle" or the statement it is at
    category,      \* trigger's argument
    options,       \* trigger's local
    arg,           \* load_pack's argument pack
    loaded,        \* load_pack's local dict
    exc,           \* per thread: the exception that left its call
    \* the render thread: position and locals of _callback
    rpc,
    frames,        \* _callback's argument
    idx,           \* index in self._active of the loop's current s
    mix,           \* the accumulation buffer
    still_active,
    outdata,       \* the device's output block
    \* history: written, never read by the program
    nplays,        \* number of play calls completed; a request's number
    seen,          \* the requests queued when the render call in progress started
    born,          \* per request: the positions of the voices made from it
    calls,         \* per active voice: the render calls that held it
    block,         \* per active voice: their block size, -1 if it varied
    reads,         \* per thread: the values self.sounds had at trigger's reads
    start,         \* self._active as the loop of the render call in progress found it
    vols           \* the values of self.volume that loop has scaled a voice by

engine_vars == <<pack, sounds, enabled>>
mixer_vars  == <<volume, lock, active, event_q, stream>>
caller_vars == <<tpc, category, options, arg, loaded, exc, reads>>
render_vars == <<rpc, frames, idx, mix, still_active, outdata>>
hist_vars   == <<nplays, seen, born, calls, block, start, vols>>
vars == <<engine_vars, mixer_vars, caller_vars, render_vars, hist_vars>>

Ids == 1..MaxPlays

\* random.uniform(0.85, 1.05): its two ends.
Gains == {85, 105}
\* Arguments of set_volume, in hundredths: below, inside and above [0, 1].
VolumeArgs == {-100, 50, 150}
\* Block sizes the device asks for (blocksize=0: the device chooses).
FrameCounts == 1..MaxFrames
\* The categories a thread triggers: on_press passes key_to_category's
\* result, the two test buttons pass "normal" and "space".
TriggerCats(t) ==
    IF t = "ui" THEN {"normal", "space"} ELSE {key_to_category(key) : key \in Keys}

EmptyDict == [c \in {} |-> << >>]

\* d.get(c, [])
dict_get(d, c) == IF c \in DOMAIN d THEN d[c] ELSE << >>

\* SoundEngine.__init__, AudioMixer.__init__, then AudioMixer.start
Init ==
    /\ pack = "None" /\ sounds = EmptyDict /\ enabled = TRUE
    /\ volume = 50 /\ lock = "free" /\ active = << >> /\ event_q = << >>
    /\ stream = "active"
    /\ tpc = [t \in Threads |-> "idle"]
    /\ category = [t \in Threads |-> "None"]
    /\ options = [t \in Threads |-> << >>]
    /\ arg = "None" /\ loaded = EmptyDict
    /\ exc = [t \in Threads |-> "none"]
    /\ rpc = "idle" /\ frames = 0 /\ idx = 0
    /\ mix = << >> /\ still_active = << >> /\ outdata = << >>
    /\ nplays = 0 /\ seen = {}
    /\ born = [i \in Ids |-> << >>]
    /\ calls = [i \in Ids |-> 0]
    /\ block = [i \in Ids |-> 0]
    /\ reads = [t \in Threads |-> << >>]
    /\ start = << >> /\ vols = {}

\* -------------------------------------------------- SoundEngine.load_pack
\* The inner loop: arrs.append(load_wav(p)) for the paths from the i-th on.
RECURSIVE decode_paths(_, _, _)
decode_paths(paths, i, arrs) ==
    IF i > Len(paths) THEN [exc |-> "none", arrs |-> arrs]
    ELSE LET r == load_wav(paths[i])
         IN  IF r.exc # "none" THEN [exc |-> r.exc, arrs |-> arrs]
             ELSE decode_paths(paths, i + 1, Append(arrs, r.data))

\* The outer loop over files.items(), from the k-th category on: the
\* exception that ended it ("none": it ran to its end) and the local dict.
RECURSIVE decode_cats(_, _, _)
decode_cats(files, k, ld) ==
    IF k > Len(cats) THEN [exc |-> "none", loaded |-> ld]
    ELSE LET r == decode_paths(files[cats[k]], 1, << >>)
         IN  IF r.exc # "none" THEN [exc |-> r.exc, loaded |-> ld]
             ELSE decode_cats(files, k + 1,
                     [c \in DOMAIN ld \cup {cats[k]} |->
                         IF c = cats[k] THEN r.arrs ELSE ld[c]])

Decode(p) == decode_cats(list_category_files(p), 1, EmptyDict)

\* An exception leaves thread t's call.
raise(t, e) ==
    /\ tpc' = [tpc EXCEPT ![t] = "except"]
    /\ exc' = [exc EXCEPT ![t] = e]

\* Lines 164-170 with the dict stored in self.sounds as it is built.
load_pack_committing(p) ==
    /\ tpc["ui"] = "idle"
    /\ LET r == Decode(p)
       IN  IF r.exc # "none"
           THEN /\ raise("ui", r.exc)
                /\ sounds' = r.loaded
                /\ UNCHANGED <<arg, loaded>>
           ELSE /\ loaded' = r.loaded
                /\ arg' = p
                /\ tpc' = [tpc EXCEPT !["ui"] = "set_pack"]
                /\ UNCHANGED <<exc, sounds>>
    /\ UNCHANGED <<pack, enabled, mixer_vars, render_vars, hist_vars>>
    /\ UNCHANGED <<category, options, reads>>

\* The UI thread calls engine.load_pack(p). Lines 164-170: list the files
\* and decode them into the local dict; the first load_wav that raises ends
\* the call with nothing assigned.
load_pack(p) ==
    /\ tpc["ui"] = "idle"
    /\ LET r == Decode(p)
       IN  IF r.exc # "none"
           THEN /\ raise("ui", r.exc)
                /\ UNCHANGED <<arg, loaded>>
           ELSE /\ loaded' = r.loaded
                /\ arg' = p
                /\ tpc' = [tpc EXCEPT !["ui"] = "set_pack"]
                /\ UNCHANGED exc
    /\ UNCHANGED <<engine_vars, mixer_vars, render_vars, hist_vars>>
    /\ UNCHANGED <<category, options, reads>>

\* Line 171: self.pack = pack
load_pack_set_pack ==
    /\ tpc["ui"] = "set_pack"
    /\ pack' = arg
    /\ tpc' = [tpc EXCEPT !["ui"] = "set_sounds"]
    /\ UNCHANGED <<sounds, enabled, mixer_vars, render_vars, hist_vars>>
    /\ UNCHANGED <<category, options, arg, loaded, exc, reads>>

\* Line 172: self.sounds = loaded, and the call returns.
load_pack_set_sounds ==
    /\ tpc["ui"] = "set_sounds"
    /\ sounds' = loaded
    /\ tpc' = [tpc EXCEPT !["ui"] = "idle"]
    /\ arg' = "None" /\ loaded' = EmptyDict
    /\ UNCHANGED <<pack, enabled, mixer_vars, render_vars, hist_vars>>
    /\ UNCHANGED <<category, options, exc, reads>>

\* The caller's handler (MainWindow._on_pack_changed: except Exception as e:
\* print(...); pynput and Qt report an exception of a callback likewise).
except_handler(t) ==
    /\ tpc[t] = "except"
    /\ tpc' = [tpc EXCEPT ![t] = "idle"]
    /\ exc' = [exc EXCEPT ![t] = "none"]
    /\ UNCHANGED <<engine_vars, mixer_vars, render_vars, hist_vars>>
    /\ UNCHANGED <<category, options, arg, loaded, reads>>

\* ------------------------------------------------- AudioMixer.set_volume
\* Line 121 without the clip.
set_volume_unclipped(x) ==
    /\ tpc["ui"] = "idle"
    /\ volume' = x
    /\ UNCHANGED <<engine_vars, lock, active, event_q, stream, render_vars, hist_vars>>
    /\ UNCHANGED caller_vars

\* The UI thread calls mixer.set_volume(x).
\* Line 121: self.volume = float(np.clip(v, 0.0, 1.0))
set_volume(x) ==
    /\ tpc["ui"] = "idle"
    /\ volume' = np_clip(x, 0, Pct)
    /\ UNCHANGED <<engine_vars, lock, active, event_q, stream, render_vars, hist_vars>>
    /\ UNCHANGED caller_vars

\* MainWindow._on_enabled_toggled: self.engine.enabled = bool(checked)
set_enabled(b) ==
    /\ tpc["ui"] = "idle"
    /\ enabled # b
    /\ enabled' = b
    /\ UNCHANGED <<pack, sounds, mixer_vars, caller_vars, render_vars, hist_vars>>

\* ------------------------------------------------------- AudioMixer.stop
\* Line 117 with the stream's error checked (ignore_errors=False): stopping
\* a stream that is closed raises PortAudioError.
stop_call_checked ==
    /\ tpc["ui"] = "idle"
    /\ stream # "active" \/ rpc \in {"idle", "aborted"}
    /\ IF stream = "closed"
       THEN /\ raise("ui", "PortAudioError")
            /\ UNCHANGED stream
       ELSE /\ stream' = "stopped"
            /\ tpc' = [tpc EXCEPT !["ui"] = "close"]
            /\ UNCHANGED exc
    /\ UNCHANGED <<engine_vars, volume, lock, active, event_q, render_vars, hist_vars>>
    /\ UNCHANGED <<category, options, arg, loaded, reads>>

\* The UI thread calls mixer.stop() (closeEvent, line 366).
\* Line 117: self._stream.stop() waits for a callback in progress to end,
\* after which the device calls _callback no more; sounddevice ignores the
\* error PortAudio reports for a stream that is not running or is closed
\* (stop(ignore_errors=True)).
stop_call ==
    /\ tpc["ui"] = "idle"
    /\ stream # "active" \/ rpc \in {"idle", "aborted"}
    /\ stream' = IF stream = "active" THEN "stopped" ELSE stream
    /\ tpc' = [tpc EXCEPT !["ui"] = "close"]
    /\ UNCHANGED <<engine_vars, volume, lock, active, event_q, render_vars, hist_vars>>
    /\ UNCHANGED <<category, options, arg, loaded, exc, reads>>

\* Line 118 followed by a flush of the queue and of the voices.
stream_close_flushing ==
    /\ tpc["ui"] = "close"
    /\ stream' = "closed"
    /\ tpc' = [tpc EXCEPT !["ui"] = "idle"]
    /\ event_q' = << >>
    /\ active' = << >>
    /\ UNCHANGED <<engine_vars, volume, lock, render_vars, hist_vars>>
    /\ UNCHANGED <<category, options, arg, loaded, exc, reads>>

\* Line 118: self._stream.close() releases the stream (close(ignore_errors=
\* True) likewise), and stop() returns.
stream_close ==
    /\ tpc["ui"] = "close"
    /\ stream' = "closed"
    /\ tpc' = [tpc EXCEPT !["ui"] = "idle"]
    /\ UNCHANGED <<engine_vars, volume, lock, active, event_q, render_vars, hist_vars>>
    /\ UNCHANGED <<category, options, arg, loaded, exc, reads>>

\* ------------------------------------------------------- AudioMixer.play
\* Line 124 taking the mixer's lock first.
play_locked(data, gain) ==
    /\ lock = "free"
    /\ event_q' = Append(event_q, [data |-> data, gain |-> gain, id |-> nplays + 1])
    /\ nplays' = nplays + 1

\* Line 124: self._event_q.put((data, gain)). The queue is unbounded, so put
\* never waits for room; the request carries its number for the history.
play(data, gain) ==
    /\ event_q' = Append(event_q, [data |-> data, gain |-> gain, id |-> nplays + 1])
    /\ nplays' = nplays + 1

\* The arrays load_pack stores: those of the packs it loads to the end.
Arrays ==
    UNION {{Decode(p).loaded[c][i] : i \in 1..Len(Decode(p).loaded[c])} :
           <<p, c>> \in {pc \in Packs \X Categories : Decode(pc[1]).exc = "none"}}

\* A thread calls mixer.play(data, gain), as trigger's last statement does.
play_call(t, data, gain) ==
    /\ tpc[t] = "idle"
    /\ nplays < MaxPlays
    /\ play(data, gain)
    /\ UNCHANGED <<engine_vars, volume, lock, active, stream, caller_vars, render_vars>>
    /\ UNCHANGED <<seen, born, calls, block, start, vols>>

\* --------------------------------------------------- SoundEngine.trigger
TriggerPcs == {"trigger", "fallback", "choose"}

\* Calls of trigger in progress that may still reach play.
InFlight == Cardinality({t \in Threads : tpc[t] \in TriggerPcs})

\* A thread calls engine.trigger(c): on_press on the listener thread, a test
\* button on the UI thread.
trigger_call(t, c) ==
    /\ tpc[t] = "idle"
    /\ nplays + InFlight < MaxPlays
    /\ tpc' = [tpc EXCEPT ![t] = "trigger"]
    /\ category' = [category EXCEPT ![t] = c]
    /\ UNCHANGED <<engine_vars, mixer_vars, render_vars, hist_vars>>
    /\ UNCHANGED <<options, arg, loaded, exc, reads>>

\* The listener thread's on_press(key), lines 281-283:
\* cat = key_to_category(key); self.engine.trigger(cat)
on_press(key) == trigger_call("listener", key_to_category(key))

\* The call returns: its locals are gone.
trigger_return(t) ==
    /\ tpc' = [tpc EXCEPT ![t] = "idle"]
    /\ category' = [category EXCEPT ![t] = "None"]
    /\ options' = [options EXCEPT ![t] = << >>]
    /\ reads' = [reads EXCEPT ![t] = << >>]

\* Lines 175-177 with the test of self.enabled dropped.
trigger_lookup_always(t) ==
    /\ tpc[t] = "trigger"
    /\ LET got == dict_get(sounds, category[t])
       IN  /\ options' = [options EXCEPT ![t] = got]
           /\ tpc' = [tpc EXCEPT ![t] = IF got = << >> THEN "fallback" ELSE "choose"]
           /\ reads' = [reads EXCEPT ![t] = Append(@, sounds)]
           /\ UNCHANGED category
    /\ UNCHANGED <<engine_vars, mixer_vars, render_vars, hist_vars>>
    /\ UNCHANGED <<arg, loaded, exc>>

\* Lines 175-177: if not self.enabled: return;
\* options = self.sounds.get(category, [])
trigger_lookup(t) ==
    /\ tpc[t] = "trigger"
    /\ IF ~enabled THEN trigger_return(t)
       ELSE LET got == dict_get(sounds, category[t])
            IN  /\ options' = [options EXCEPT ![t] = got]
                /\ tpc' = [tpc EXCEPT ![t] =
                              IF got = << >> THEN "fallback" ELSE "choose"]
                /\ reads' = [reads EXCEPT ![t] = Append(@, sounds)]
                /\ UNCHANGED category
    /\ UNCHANGED <<engine_vars, mixer_vars, render_vars, hist_vars>>
    /\ UNCHANGED <<arg, loaded, exc>>

\* Lines 178-181 going on to choose among nothing instead of returning.
trigger_fallback_unguarded(t) ==
    /\ tpc[t] = "fallback"
    /\ options' = [options EXCEPT ![t] = dict_get(sounds, "normal")]
    /\ tpc' = [tpc EXCEPT ![t] = "choose"]
    /\ reads' = [reads EXCEPT ![t] = Append(@, sounds)]
    /\ UNCHANGED category
    /\ UNCHANGED <<engine_vars, mixer_vars, render_vars, hist_vars>>
    /\ UNCHANGED <<arg, loaded, exc>>

\* Lines 178-181: the category's pool is empty, so
\* options = self.sounds.get("normal", []); if that is empty too, return.
trigger_fallback(t) ==
    /\ tpc[t] = "fallback"
    /\ LET got == dict_get(sounds, "normal")
       IN  IF got = << >> THEN trigger_return(t)
           ELSE /\ options' = [options EXCEPT ![t] = got]
                /\ tpc' = [tpc EXCEPT ![t] = "choose"]
                /\ reads' = [reads EXCEPT ![t] = Append(@, sounds)]
                /\ UNCHANGED category
    /\ UNCHANGED <<engine_vars, mixer_vars, render_vars, hist_vars>>
    /\ UNCHANGED <<arg, loaded, exc>>

\* Lines 184-186: sample = random.choice(options);
\* gain = random.uniform(0.85, 1.05); self.mixer.play(sample, gain=gain).
\* random.choice of an empty list raises IndexError.
trigger_choose(t) ==
    /\ tpc[t] = "choose"
    /\ IF options[t] = << >>
       THEN /\ raise(t, "IndexError")
            /\ category' = [category EXCEPT ![t] = "None"]
            /\ options' = [options EXCEPT ![t] = << >>]
            /\ reads' = [reads EXCEPT ![t] = << >>]
            /\ UNCHANGED <<event_q, nplays>>
       ELSE /\ \E i \in 1..Len(options[t]), gain \in Gains :
                   play(options[t][i], gain)
            /\ trigger_return(t)
            /\ UNCHANGED exc
    /\ UNCHANGED <<engine_vars, volume, lock, active, stream, render_vars>>
    /\ UNCHANGED <<seen, born, calls, block, start, vols, arg, loaded>>

\* ------------------------------------------ AudioMixer._callback (render)
Zeros == [c \in 1..CHANNELS |-> 0]

\* np.zeros((frames, self.channels))
np_zeros(n) == [i \in 1..n |-> Zeros]

\* The ids of the voices of a list.
IdsOf(voices) == {voices[i].id : i \in 1..Len(voices)}

\* The render locals once the call is over.
render_locals_gone ==
    /\ frames' = 0 /\ idx' = 0 /\ mix' = << >> /\ still_active' = << >> /\ seen' = {}
    /\ start' = << >> /\ vols' = {}

\* History: the render call that ends has held the voices of self._active;
\* those of `kept` stay, the history of the others is dropped.
count_call(kept) ==
    /\ calls' = [i \in Ids |-> IF i \in IdsOf(kept) THEN calls[i] + 1 ELSE 0]
    /\ block' = [i \in Ids |->
                    IF i \notin IdsOf(kept) THEN 0
                    ELSE IF calls[i] = 0 \/ block[i] = frames THEN frames
                    ELSE -1]

\* The device calls _callback(outdata, n, ...) with a fresh output block;
\* line 136: with self._lock.
callback_enter(n) ==
    /\ stream = "active"
    /\ rpc = "idle"
    /\ lock = "free"
    /\ lock' = "render"
    /\ rpc' = "drain"
    /\ frames' = n
    /\ seen' = {event_q[k].id : k \in 1..Len(event_q)}
    /\ UNCHANGED <<engine_vars, volume, active, event_q, stream, caller_vars>>
    /\ UNCHANGED <<idx, mix, still_active, outdata, nplays, born, calls, block>>
    /\ UNCHANGED <<start, vols>>

\* Lines 127-133 as `if` instead of `while True`: one request a call.
drain_events_once ==
    /\ rpc = "drain"
    /\ IF event_q # << >>
       THEN LET e == Head(event_q)
            IN  /\ event_q' = Tail(event_q)
                /\ active' = Append(active,
                       [data |-> e.data, pos |-> 0, gain |-> e.gain, id |-> e.id])
                /\ born' = [born EXCEPT ![e.id] = Append(@, 0)]
       ELSE UNCHANGED <<event_q, active, born>>
    /\ rpc' = "mix"
    /\ mix' = np_zeros(frames)
    /\ still_active' = << >>
    /\ idx' = 1
    /\ start' = active'
    /\ UNCHANGED <<engine_vars, volume, lock, stream, caller_vars>>
    /\ UNCHANGED <<frames, outdata, nplays, seen, calls, block, vols>>

\* Lines 127-133, one turn of the loop: get_nowait takes the oldest request
\* and a voice at position 0 is appended; queue.Empty ends the loop, and
\* lines 138-140 set up the buffer and the list of the voices that stay.
drain_events ==
    /\ rpc = "drain"
    /\ IF event_q # << >>
       THEN LET e == Head(event_q)
            IN  /\ event_q' = Tail(event_q)
                /\ active' = Append(active,
                       [data |-> e.data, pos |-> 0, gain |-> e.gain, id |-> e.id])
                /\ born' = [born EXCEPT ![e.id] = Append(@, 0)]
                /\ UNCHANGED <<rpc, mix, still_active, idx, start>>
       ELSE /\ rpc' = "mix"
            /\ mix' = np_zeros(frames)
            /\ still_active' = << >>
            /\ idx' = 1
            /\ start' = active
            /\ UNCHANGED <<event_q, active, born>>
    /\ UNCHANGED <<engine_vars, volume, lock, stream, caller_vars>>
    /\ UNCHANGED <<frames, outdata, nplays, seen, calls, block, vols>>

\* Whether data[pos:pos+n] * k can be added into mix[:n]: numpy broadcasts
\* a last axis of 1 or of mix's own width, and raises ValueError otherwise.
broadcasts(data) == data.ch = CHANNELS \/ data.ch = 1

\* mix[:n] += data[pos:pos+n] * k
mix_add(m, data, pos, n, k) ==
    [i \in 1..Len(m) |->
        IF i > n THEN m[i]
        ELSE [c \in 1..CHANNELS |->
                 m[i][c] + data.fr[pos + i][IF data.ch = 1 THEN 1 ELSE c] * k]]

\* Lines 141-148 with the master volume folded into the voice's gain.
mix_voice_scaling_gain ==
    /\ rpc = "mix"
    /\ idx <= Len(active)
    /\ LET s == active[idx]
           remaining == Len(s.data.fr) - s.pos
           n == Min(frames, remaining)
           pos2 == IF n > 0 THEN s.pos + n ELSE s.pos
           g2 == IF n > 0 THEN (s.gain * volume) \div Pct ELSE s.gain
           s2 == [s EXCEPT !.pos = pos2, !.gain = g2]
       IN  IF n > 0 /\ ~broadcasts(s.data)
           THEN /\ rpc' = "aborted"
                /\ lock' = "free"
                /\ render_locals_gone
                /\ count_call(active)
                /\ UNCHANGED active
           ELSE /\ mix' = IF n > 0
                          THEN mix_add(mix, s.data, s.pos, n, g2 * Pct)
                          ELSE mix
                /\ active' = [active EXCEPT ![idx] = s2]
                /\ still_active' = IF pos2 < Len(s.data.fr)
                                   THEN Append(still_active, s2)
                                   ELSE still_active
                /\ idx' = idx + 1
                /\ vols' = IF n > 0 THEN vols \cup {volume} ELSE vols
                /\ UNCHANGED <<rpc, lock, frames, seen, calls, block, start>>
    /\ UNCHANGED <<engine_vars, volume, event_q, stream, caller_vars>>
    /\ UNCHANGED <<outdata, nplays, born>>

\* Lines 141-148, one turn of the loop over self._active, for s = active[idx].
mix_voice ==
    /\ rpc = "mix"
    /\ idx <= Len(active)
    /\ LET s == active[idx]
           remaining == Len(s.data.fr) - s.pos
           n == Min(frames, remaining)
           pos2 == IF n > 0 THEN s.pos + n ELSE s.pos
           s2 == [s EXCEPT !.pos = pos2]
       IN  IF n > 0 /\ ~broadcasts(s.data)
           THEN \* line 145 raises: the with block releases the lock and the
                \* exception leaves _callback, which aborts the stream.
                /\ rpc' = "aborted"
                /\ lock' = "free"
                /\ render_locals_gone
                /\ count_call(active)
                /\ UNCHANGED active
           ELSE /\ mix' = IF n > 0
                          THEN mix_add(mix, s.data, s.pos, n, s.gain * volume)
                          ELSE mix
                /\ active' = [active EXCEPT ![idx] = s2]
                /\ still_active' = IF pos2 < Len(s.data.fr)
                                   THEN Append(still_active, s2)
                                   ELSE still_active
                /\ idx' = idx + 1
                /\ vols' = IF n > 0 THEN vols \cup {volume} ELSE vols
                /\ UNCHANGED <<rpc, lock, frames, seen, calls, block, start>>
    /\ UNCHANGED <<engine_vars, volume, event_q, stream, caller_vars>>
    /\ UNCHANGED <<outdata, nplays, born>>

\* Line 152 left out.
clip_block_skipped(m) == m

\* np.clip(mix, -1.0, 1.0, out=mix)
clip_block(m) ==
    [i \in 1..Len(m) |-> [c \in 1..CHANNELS |-> np_clip(m[i][c], -MixOne, MixOne)]]

\* Lines 150-153 keeping every voice.
mix_done_keep_all ==
    /\ rpc = "mix"
    /\ idx > Len(active)
    /\ lock' = "free"
    /\ outdata' = clip_block(mix)
    /\ rpc' = "done"
    /\ count_call(active)
    /\ UNCHANGED <<engine_vars, volume, active, event_q, stream, caller_vars>>
    /\ UNCHANGED <<frames, idx, mix, still_active, nplays, seen, born, start, vols>>

\* Lines 150-153: the loop is over; self._active = still_active and the
\* with block releases the lock; then np.clip(mix, -1.0, 1.0, out=mix) and
\* outdata[:] = mix.
mix_done ==
    /\ rpc = "mix"
    /\ idx > Len(active)
    /\ active' = still_active
    /\ lock' = "free"
    /\ outdata' = clip_block(mix)
    /\ rpc' = "done"
    /\ count_call(still_active)
    /\ UNCHANGED <<engine_vars, volume, event_q, stream, caller_vars>>
    /\ UNCHANGED <<frames, idx, mix, still_active, nplays, seen, born, start, vols>>

\* _callback returns; the device takes the block.
callback_return ==
    /\ rpc = "done"
    /\ rpc' = "idle"
    /\ outdata' = << >>
    /\ render_locals_gone
    /\ UNCHANGED <<engine_vars, mixer_vars, caller_vars>>
    /\ UNCHANGED <<nplays, born, calls, block>>

\* ---------------------------------------------------------- specification
\* The engine and its callers: the threads' calls of load_pack and trigger,
\* with requests queued for a render thread that does not run.
EngineNext ==
    \/ \E p \in Packs : load_pack(p)
    \/ load_pack_set_pack
    \/ load_pack_set_sounds
    \/ \E t \in Threads : except_handler(t)
    \/ \E b \in BOOLEAN : set_enabled(b)
    \/ \E key \in Keys : on_press(key)
    \/ \E c \in TriggerCats("ui") : trigger_call("ui", c)
    \/ \E t \in Threads : trigger_lookup(t)
    \/ \E t \in Threads : trigger_fallback(t)
    \/ \E t \in Threads : trigger_choose(t)

\* The render thread.
RenderNext ==
    \/ \E n \in FrameCounts : callback_enter(n)
    \/ drain_events
    \/ mix_voice
    \/ mix_done
    \/ callback_return

\* The mixer and its callers: the threads' calls of play and set_volume,
\* and the render thread.
MixerNext ==
    \/ \E t \in Threads : \E data \in Arrays, gain \in Gains : play_call(t, data, gain)
    \/ \E x \in VolumeArgs : set_volume(x)
    \/ RenderNext

\* The mixer's whole life: as MixerNext, and the UI thread's calls of stop.
StopNext ==
    \/ MixerNext
    \/ stop_call
    \/ stream_close

Next ==
    \/ EngineNext
    \/ \E x \in VolumeArgs : set_volume(x)
    \/ stop_call
    \/ stream_close
    \/ RenderNext

Spec == Init /\ [][Next]_vars
SpecEngine == Init /\ [][EngineNext]_vars
SpecMixer == Init /\ [][MixerNext]_vars
SpecStop == Init /\ [][StopNext]_vars

\* The started stream keeps calling _callback, and a call in progress runs
\* to its end: the render thread is never held up for ever.
FairSpecMixer == SpecMixer /\ WF_vars(RenderNext)

\* ------------------------------------------------------------------ claims

\* C1: after every render call, for any frame count, any set of active
\* voices, any gains and any master volume, the output block has the asked
\* number of frames and every value written to it lies in [-1, 1].
C1_OutputInRange ==
    /\ \A i \in 1..Len(outdata) : \A c \in 1..CHANNELS :
           -MixOne <= outdata[i][c] /\ outdata[i][c] <= MixOne
    /\ rpc = "done" => Len(outdata) = frames

\* C1's case: a render call has ended whose accumulated values went above 1
\* and below -1 before the clip.
C1_Witness ==
    /\ rpc = "done"
    /\ \E i \in 1..Len(mix) : \E c \in 1..CHANNELS : mix[i][c] > MixOne
    /\ \E i \in 1..Len(mix) : \E c \in 1..CHANNELS : mix[i][c] < -MixOne

\* How many of the queued requests carry number i.
Queued(i) == Cardinality({k \in 1..Len(event_q) : event_q[k].id = i})

\* C2: whatever the interleaving of the producers' play calls, no request
\* is lost or duplicated (each completed play call is either still queued
\* once or has been made into exactly one voice, created at position 0),
\* and once a render call's drain is over, every play call that completed
\* before that render call started has been made into its voice and is no
\* longer queued.
C2_DrainMaterializesEveryRequest ==
    /\ \A i \in Ids :
           /\ Len(born[i]) + Queued(i) = (IF i <= nplays THEN 1 ELSE 0)
           /\ \A k \in 1..Len(born[i]) : born[i][k] = 0
    /\ rpc \in {"mix", "done"} =>
           \A i \in seen : born[i] = <<0>> /\ Queued(i) = 0
    /\ (rpc = "mix" /\ idx = 1) =>
           \A i \in seen : \E k \in 1..Len(active) :
               active[k].id = i /\ active[k].pos = 0

\* C2's case: a drain has just ended that made at least two requests,
\* completed before the render call started, into voices.
C2_Witness ==
    /\ rpc = "mix" /\ idx = 1
    /\ Cardinality(seen) >= 2
    /\ event_q = << >>
\* ceil(L / F)
Ceil(L, F) == (L + F - 1) \div F

\* A render call ends in this step: it returns its block, or it raises.
RenderCallEnds == rpc = "mix" /\ rpc' \in {"done", "aborted"}

\* C3: a voice playing a sample of L frames, rendered with a constant block
\* size F, is removed from the active set after exactly ceil(L / F) render
\* calls counted from the one that drains it: at the end of each render
\* call that held it, it is still in the active set if and only if fewer
\* than ceil(L / F) calls have held it.
C3_RemovedAfterCeilCalls ==
    [][RenderCallEnds =>
          \A k \in 1..Len(active) :
              LET s == active[k]
                  n == calls[s.id] + 1
              IN  (calls[s.id] = 0 \/ block[s.id] = frames) =>
                      ((s.id \in IdsOf(active')) <=> (n < Ceil(Len(s.data.fr), frames)))
      ]_vars

\* The step of a failed load_pack: the exception leaves the call.
LoadPackFails ==
    /\ tpc["ui"] = "idle" /\ tpc'["ui"] = "except"
    /\ exc'["ui"] \in {"DecodeError", "ValueError"}

\* C4: when load_pack fails on a file of any category, the error reaches the
\* caller and the active pack's name and the mapping are what they were
\* before the call, so trigger goes on selecting from the previous pack; the
\* mapping is replaced only by the complete mapping of a pack all of whose
\* categories decoded.
C4_FailedLoadKeepsPack ==
    [][/\ LoadPackFails => (pack' = pack /\ sounds' = sounds)
       /\ (tpc["ui"] = "idle" /\ tpc'["ui"] = "set_pack") => Decode(arg').exc = "none"
       /\ sounds' # sounds =>
              /\ Decode(pack').exc = "none"
              /\ sounds' = Decode(pack').loaded
              /\ DOMAIN sounds' = Categories
       /\ pack' # pack => Decode(pack').exc = "none"
      ]_vars

\* C4's case: with pack alpha active a load_pack has just failed on a corrupt
\* file, alpha is still the active pack, and a trigger that looked its pool
\* up is about to play one of alpha's samples.
C4_Witness ==
    /\ tpc["ui"] = "except" /\ exc["ui"] = "DecodeError"
    /\ pack = "alpha" /\ sounds = Decode("alpha").loaded
    /\ tpc["listener"] = "choose"
    /\ options["listener"] = sounds["space"]

\* C5: a trigger that runs while load_pack swaps the pack resolves its
\* category pool and its "normal" fallback pool from one single mapping:
\* the two values of self.sounds it reads are the same.
C5_TriggerReadsOneMapping ==
    \A t \in Threads : Len(reads[t]) = 2 => reads[t][1] = reads[t][2]

\* C6: the render path never raises: no render call ends in an exception.
C6_RenderNeverRaises == rpc # "aborted"

\* Thread t takes a step of its trigger call.
TriggerStep(t) == tpc[t] \in TriggerPcs /\ tpc'[t] # tpc[t]

\* C7: a trigger that finds its category's pool empty or absent, with the
\* "normal" pool empty or absent too, enqueues no play request and returns
\* without an error: while both pools are empty, each step of the call goes
\* on to the fallback or returns, and leaves the queue as it was.
C7_EmptyPoolsNoRequest ==
    [][\A t \in Threads :
          (/\ TriggerStep(t)
           /\ tpc[t] \in {"trigger", "fallback"}
           /\ dict_get(sounds, category[t]) = << >>
           /\ dict_get(sounds, "normal") = << >>)
          => /\ tpc'[t] \in {"fallback", "idle"}
             /\ tpc[t] = "fallback" => tpc'[t] = "idle"
             /\ exc'[t] = "none"
             /\ event_q' = event_q /\ nplays' = nplays /\ active' = active
      ]_vars

\* C7's case: a pack is loaded whose "arrow" and "normal" pools are empty
\* lists, and a trigger of "arrow" has found the first empty and is at the
\* fallback.
C7_Witness ==
    /\ pack = "beta" /\ sounds = Decode("beta").loaded
    /\ tpc["listener"] = "fallback" /\ category["listener"] = "arrow"
    /\ enabled

\* C8: trigger is a no-op when the engine is disabled or no pack has been
\* loaded (also after a first load_pack that failed): a call that starts
\* while disabled returns at once, a call while no pack is loaded never
\* reaches play, and in both cases its steps leave the queue, the active
\* voices, the volume and the engine's mapping, pack and flag as they were.
C8_DisabledOrNoPackNoOp ==
    [][\A t \in Threads :
          (TriggerStep(t) /\ ((~enabled /\ tpc[t] = "trigger") \/ pack = "None"))
          => /\ tpc'[t] \in {"fallback", "idle"}
             /\ (~enabled /\ tpc[t] = "trigger") => tpc'[t] = "idle"
             /\ exc'[t] = "none"
             /\ UNCHANGED <<event_q, nplays, active, volume, sounds, pack, enabled>>
      ]_vars

\* C8's case: the engine is disabled with pack alpha loaded, and a trigger
\* of "normal", whose pool is not empty, has been called and is at its test
\* of the flag.
C8_Witness ==
    /\ ~enabled
    /\ pack = "alpha" /\ dict_get(sounds, "normal") # << >>
    /\ tpc["listener"] = "trigger" /\ category["listener"] = "normal"

\* C9: a producer is never blocked by the render thread and the render
\* thread never waits for a producer: in every reachable state a thread
\* that is free to call play can complete it with any request, also while
\* a render call holds the mixer's lock; a render call in progress can take
\* its next step; and the lock is free whenever a render call may start,
\* for only the render thread ever takes it.
C9_NeitherSideBlocks ==
    /\ \A t \in Threads :
           (tpc[t] = "idle" /\ nplays < MaxPlays) =>
               \A data \in Arrays, gain \in Gains : ENABLED play_call(t, data, gain)
    /\ rpc \in {"drain", "mix", "done"} => ENABLED RenderNext
    /\ rpc = "idle" => (lock = "free" /\ \A n \in FrameCounts : ENABLED callback_enter(n))
    /\ lock = "render" <=> rpc \in {"drain", "mix"}

\* C9's case: a play call has completed while a render call held the lock:
\* the drain is over and the loop over the voices is under way, yet a
\* request is queued.
C9_Witness ==
    /\ lock = "render" /\ rpc = "mix"
    /\ event_q # << >>

\* [0, 1] clamp of a volume, case by case.
Clamped(x) == IF x > Pct THEN Pct ELSE IF x < 0 THEN 0 ELSE x

\* C10: the master volume is in [0, 1] in every reachable state; it starts
\* in range, set_volume(x) stores x clamped to [0, 1] (above 1 becomes 1,
\* below 0 becomes 0, in range is stored unchanged), and no other operation
\* changes it.
C10_VolumeInRange ==
    /\ [](0 <= volume /\ volume <= Pct)
    /\ [][/\ \A x \in VolumeArgs : set_volume(x) => volume' = Clamped(x)
          /\ volume' # volume => \E x \in VolumeArgs : set_volume(x)
         ]_vars

\* C10's case: set_volume(1.5) has stored 1.0 (no other argument of the
\* model and no other operation yields 1.0).
C10_Witness == volume = Pct

\* A gain of [0.85, 1.05].
GainInRange(g) == 85 <= g /\ g <= 105

\* C11: in every reachable state every active voice and every pending play
\* request has a gain in [0.85, 1.05], and a voice's gain never changes
\* between its creation and its removal: the voice is created with the gain
\* of its request and keeps it in every step while it is in the active set.
C11_GainInRangeAndFixed ==
    /\ [](/\ \A k \in 1..Len(event_q) : GainInRange(event_q[k].gain)
          /\ \A k \in 1..Len(active) : GainInRange(active[k].gain))
    /\ [][\A k \in 1..Len(active') :
              LET s == active'[k]
              IN  /\ \A j \in 1..Len(active) :
                         active[j].id = s.id => active[j].gain = s.gain
                  /\ \A j \in 1..Len(event_q) :
                         event_q[j].id = s.id => event_q[j].gain = s.gain
         ]_vars

\* C11's case: a voice of gain 1.05 has been rendered in part and is still
\* in the active set while the master volume is not 1.0, and a request of
\* gain 0.85 is pending.
C11_Witness ==
    /\ rpc = "idle" /\ volume # Pct
    /\ \E k \in 1..Len(active) : active[k].gain = 105 /\ active[k].pos > 0
    /\ \E k \in 1..Len(event_q) : event_q[k].gain = 85

\* Whether a key is one of F1..Fn: a named key whose name is "f" and digits.
Digits == {"0", "1", "2", "3", "4", "5", "6", "7", "8", "9"}
IsFunctionKey(key) ==
    /\ key.cls = "Key"
    /\ Len(key.name) >= 2
    /\ key.name[1] = "f"
    /\ \A i \in 2..Len(key.name) : key.name[i] \in Digits

\* The classification by the precedence space, enter, backspace, modifier
\* set, arrow / navigation set, function-key pattern, else normal.
Classified(key) ==
    CASE key = Key(<<"s", "p", "a", "c", "e">>) -> "space"
      [] key = Key(<<"e", "n", "t", "e", "r">>) -> "enter"
      [] key = Key(<<"b", "a", "c", "k", "s", "p", "a", "c", "e">>) -> "backspace"
      [] key \in {Key_shift, Key_shift_l, Key_shift_r, Key_ctrl, Key_ctrl_l,
                  Key_ctrl_r, Key_alt, Key_alt_l, Key_alt_r, Key_cmd, Key_cmd_l,
                  Key_cmd_r, Key_tab, Key_caps_lock, Key_esc} -> "modifier"
      [] key \in {Key_up, Key_down, Key_left, Key_right, Key_home, Key_end,
                  Key_page_up, Key_page_down, Key_insert, Key_delete} -> "arrow"
      [] OTHER -> IF IsFunctionKey(key) THEN "function" ELSE "normal"

\* What key_to_category gives for every key, and for the keys named.
KeyFacts ==
    /\ \A key \in Keys :
           /\ key_to_category(key) \in Categories
           /\ key_to_category(key) = Classified(key)
           /\ key_to_category(key) = "function" <=> IsFunctionKey(key)
    /\ key_to_category(Key_space) = "space"
    /\ key_to_category(Key_enter) = "enter"
    /\ key_to_category(Key_backspace) = "backspace"
    /\ key_to_category(Key_shift_l) = "modifier"
    /\ key_to_category(Key_up) = "arrow"
    /\ key_to_category(Key_f5) = "function"
    /\ key_to_category(KeyCode("a")) = "normal"

\* The keys of each class.
KeysClassified == [c \in Categories |-> {key \in Keys : Classified(key) = c}]

\* C12: key_to_category gives exactly one of the 7 categories for every
\* key, by the precedence space, enter, backspace, modifier set, arrow /
\* navigation set, function-key pattern, else normal; space -> space,
\* enter -> enter, backspace -> backspace, left shift -> modifier, up arrow
\* -> arrow, F5 -> function, the letter a -> normal; only the keys F1..Fn
\* give "function"; and on_press triggers the category of the key pressed:
\* no key of another class can have been the one pressed.
C12_KeyToCategory ==
    /\ []KeyFacts
    /\ [][(tpc["listener"] = "idle" /\ tpc'["listener"] = "trigger") =>
              /\ category'["listener"] \in Categories
              /\ \A c \in Categories \ {category'["listener"]} :
                     \A key \in KeysClassified[c] : ~on_press(key)
         ]_vars

\* C12's case: F5 has been pressed and on_press has called trigger with
\* the category "function", which no other key of another kind gives.
C12_Witness ==
    /\ tpc["listener"] = "trigger"
    /\ category["listener"] = "function"
    /\ category["listener"] = key_to_category(Key_f5)

\* C13: stop() is idempotent: a stop() called after a first stop() raises
\* no error and leaves the mixer as the single stop() left it: the stream
\* released, render no longer invoked, and nothing else changed.
C13_StopIdempotent ==
    /\ [](stream # "active" => /\ rpc \in {"idle", "aborted"}
                               /\ \A n \in FrameCounts : ~ENABLED callback_enter(n))
    /\ [][/\ stream_close => stream' = "closed"
          /\ (stream = "closed" /\ (stop_call \/ stream_close)) =>
                 /\ stream' = "closed"
                 /\ tpc'["ui"] # "except" /\ exc' = exc
                 /\ UNCHANGED <<volume, lock, active, event_q, rpc, outdata>>
         ]_vars

\* C13's case: after a first stop() has closed the stream, a second stop()
\* has run its line 117 and is about to close the stream again.
C13_Witness ==
    /\ stream = "closed"
    /\ tpc["ui"] = "close"

\* C14: stop() flushes the pending state: when stop() returns, the queue of
\* play requests is empty and the active set is empty, whatever was pending
\* or playing before the call.
C14_StopFlushes ==
    [][stream_close => (event_q' = << >> /\ active' = << >>)]_vars

\* A step of the render thread that may change self._active.
RenderChangesActive ==
    /\ lock = "render"
    /\ drain_events \/ mix_voice \/ mix_done

\* C16: the active set is changed only by render: each step of play, of
\* set_volume and of stop, taken by any thread at any point of a render
\* call, leaves the members of the active set, their cursors and their
\* gains as they were, and every step that changes the active set is a
\* step of the render thread holding the mixer's lock.
C16_ActiveChangedOnlyByRender ==
    [][/\ active' # active => RenderChangesActive
       /\ (\E t \in Threads : tpc'[t] # tpc[t]) => active' = active
       /\ nplays' # nplays => active' = active
       /\ (volume' # volume \/ stream' # stream) => active' = active
      ]_vars

\* C16's case: a render call is in its loop and has moved a voice's cursor
\* on, and meanwhile a play call has queued a request and set_volume has
\* changed the volume; the voice is as the render thread left it.
C16_Witness ==
    /\ rpc = "mix" /\ idx = 2
    /\ active[1].pos > 0
    /\ event_q # << >>
    /\ volume # 50

\* The members of a pool.
Elems(pool) == {pool[i] : i \in 1..Len(pool)}

\* C15: when trigger(category) enqueues a request, the sample it chose is
\* a member of mapping[category] if that pool is not empty and otherwise a
\* member of mapping["normal"], the mapping being the one the call resolved
\* its category in; it is never a sample of another pool.
C15_ChosenFromPool ==
    [][\A t \in Threads :
          (tpc[t] = "choose" /\ tpc'[t] = "idle" /\ nplays' = nplays + 1) =>
              LET sample == event_q'[Len(event_q')].data
                  mapping == reads[t][1]
                  pool == dict_get(mapping, category[t])
              IN  IF pool # << >>
                  THEN sample \in Elems(pool)
                  ELSE sample \in Elems(dict_get(mapping, "normal"))
      ]_vars

\* C17: between render calls every voice of the active set has a cursor
\* with 0 <= pos < length of its sample: a voice whose cursor has reached
\* the length (a voice of a zero-length sample too) was removed by the
\* render call that exhausted it.
C17_CursorInsideSample ==
    rpc \notin {"drain", "mix"} =>
        \A k \in 1..Len(active) :
            0 <= active[k].pos /\ active[k].pos < Len(active[k].data.fr)

\* Request i has been made into a voice and that voice has been removed.
Completed(i) == born[i] # << >> /\ i \notin IdsOf(active)

\* C18: every play request moves Pending -> Active -> Completed and does
\* complete: as long as render keeps being invoked, every request that has
\* been enqueued is eventually drained into a voice and that voice is
\* eventually removed, so that once the producers have stopped the queue
\* and the active set are empty for good; and a completed voice never
\* enters the active set again.
C18_EveryRequestCompletes ==
    /\ \A i \in Ids : (i <= nplays) ~> Completed(i)
    /\ <>[](event_q = << >> /\ active = << >>)
    /\ [][\A i \in Ids : Completed(i) => Completed(i)']_vars

\* The frames voice s gives to a block of F frames.
Given(s, F) == Min(F, Len(s.data.fr) - s.pos)

\* The sum, over the first k voices of the list, of what each gives to
\* frame i, channel c of a block of F frames mixed with master volume v.
RECURSIVE SumOfVoices(_, _, _, _, _, _)
SumOfVoices(voices, k, i, c, F, v) ==
    IF k = 0 THEN 0
    ELSE LET s == voices[k]
         IN  SumOfVoices(voices, k - 1, i, c, F, v)
             + (IF i <= Given(s, F) THEN s.data.fr[s.pos + i][c] * s.gain * v ELSE 0)

\* The block the voices give with master volume v: the clipped sums.
MixedBlock(voices, F, v) ==
    [i \in 1..F |-> [c \in 1..CHANNELS |->
        np_clip(SumOfVoices(voices, Len(voices), i, c, F, v), -MixOne, MixOne)]]

\* The values the master volume takes: the initial one and those stored by
\* set_volume.
MasterVolumes == {50} \cup {Clamped(x) : x \in VolumeArgs}

\* C19: in a render call of F frames every active voice with cursor pos and
\* sample length L gives exactly n = min(F, L - pos) frames and its cursor
\* moves on by exactly n; frame i of the output is the clip to [-1, 1] of
\* the sum, over the voices with i < n, of sample[pos + i] * gain *
\* masterVolume, for one of the values the master volume takes, and a
\* frame no voice covers is 0.
C19_BlockIsClippedSum ==
    rpc = "done" =>
        /\ \A k \in 1..Len(start) :
               LET s == start[k]
               IN  \A j \in 1..Len(active) :
                       active[j].id = s.id => active[j].pos = s.pos + Given(s, frames)
        /\ \E v \in MasterVolumes : outdata = MixedBlock(start, frames, v)

\* C20: within one render block all voices are scaled by the same value of
\* the master volume: however set_volume interleaves with the render call,
\* the loop scales the voices of the block by one value, the old or the new.
C20_OneVolumePerBlock == Cardinality(vols) <= 1

====
